---- MODULE Spec2Model ----
(***************************************************************************)
(* Model of cvnn_complexity.py: six pure functions that evaluate the       *)
(* closed-form multiplication counts of complex-valued neural networks.    *)
(* A caller picks one function and its arguments; the call either returns  *)
(* the pair (t, i) or raises the IndexError of a Python list access that   *)
(* is out of range.  Python lists are modelled as sequences; Python's      *)
(* 0-based index k of a list s is s[k+1] here, and a negative k counts     *)
(* from the end.                                                           *)
(***************************************************************************)
EXTENDS Integers, Sequences, FiniteSets

VARIABLES pc, fn, I, O, inp, neurons, out, ret

vars == <<pc, fn, I, O, inp, neurons, out, ret>>

\* ---------------------------------------------------------------- bounds
MaxWidth == 2
MaxLen == 4
MaxLayers == 2
MaxBump == 2

\* Layer widths a caller may pass.  The source validates nothing, so a
\* negative width is an input the program can receive.
Widths == (-1)..MaxWidth

SeqsUpTo(S, n) == UNION {[1..k -> S] : k \in 0..n}

\* The documented calls of the docstrings.
DocI == <<6, 97, 3>>
DocRbf == <<6, 100, 3>>
DocPtI == <<50, 50>>
DocPtO == <<6, 50, 3>>

LayerSeqs == SeqsUpTo(Widths, MaxLen) \cup {DocI}
Scalars == [1..3 -> Widths] \cup {DocRbf}
PtArgs == (SeqsUpTo(Widths, MaxLayers) \X SeqsUpTo(Widths, MaxLayers + 1))
              \cup {<<DocPtI, DocPtO>>}

\* ------------------------------------------------------ Python primitives
\* range(a, b) as the list of its values.
PyRange(a, b) == [j \in 1..(IF b > a THEN b - a ELSE 0) |-> a + j - 1]

\* s[k] does not raise IndexError.
InRange(s, k) == k >= -Len(s) /\ k < Len(s)

\* s[k] for a Python index k in range.
Get(s, k) == IF k < 0 THEN s[Len(s) + k + 1] ELSE s[k + 1]

RECURSIVE sum(_)
sum(list) == IF list = <<>> THEN 0 ELSE Head(list) + sum(Tail(list))

Elems(list) == {list[j] : j \in 1..Len(list)}

IndexError == [status |-> "IndexError"]
Return(t, i) == [status |-> "ok", t |-> t, i |-> i]
None == [status |-> "none"]

\* ------------------------------------------------------------------ CVFNN
\* A slip that runs the interior sum up to the output layer.
cvfnn_reads_through(I_) ==
    UNION {{l, l - 1, l + 1} : l \in Elems(PyRange(1, Len(I_)))}
      \cup {-1, -2}
      \cup UNION {{l, l - 1} : l \in Elems(PyRange(1, Len(I_)))}

\* Indices of I that cvfnn_complexity reads.
cvfnn_reads(I_) ==
    UNION {{l, l - 1, l + 1} : l \in Elems(PyRange(1, Len(I_) - 1))}
      \cup {-1, -2}
      \cup UNION {{l, l - 1} : l \in Elems(PyRange(1, Len(I_)))}

\* A slip that gives the output term the 3 of SCFNN's: 8*I[-1]*(I[-2]+3).
cvfnn_t_three(I_) ==
    LET r == PyRange(1, Len(I_) - 1)
    IN 4 * sum([j \in 1..Len(r) |->
              Get(I_, r[j]) * (2 * Get(I_, r[j] - 1) + Get(I_, r[j] + 1) + 2)])
         + 8 * Get(I_, -1) * (Get(I_, -2) + 3)

\* Training complexity
cvfnn_t(I_) ==
    LET r == PyRange(1, Len(I_) - 1)
    IN 4 * sum([j \in 1..Len(r) |->
              Get(I_, r[j]) * (2 * Get(I_, r[j] - 1) + Get(I_, r[j] + 1) + 2)])
         + 8 * Get(I_, -1) * (Get(I_, -2) + 1)

\* inference complexity
cvfnn_i(I_) ==
    LET r == PyRange(1, Len(I_))
    IN 4 * sum([j \in 1..Len(r) |-> Get(I_, r[j]) * Get(I_, r[j] - 1)])

cvfnn_complexity(I_) ==
    IF \E k \in cvfnn_reads(I_) : ~InRange(I_, k) THEN IndexError
    ELSE Return(cvfnn_t(I_), cvfnn_i(I_))

\* ------------------------------------------------------------------ SCFNN
\* Indices of I that scfnn_complexity reads.
scfnn_reads(I_) ==
    UNION {{l, l - 1, l + 1} : l \in Elems(PyRange(1, Len(I_) - 1))}
      \cup {-1, -2}
      \cup UNION {{l, l - 1} : l \in Elems(PyRange(1, Len(I_)))}

\* Training complexity
scfnn_t(I_) ==
    LET r == PyRange(1, Len(I_) - 1)
    IN 4 * sum([j \in 1..Len(r) |->
              Get(I_, r[j]) * (2 * Get(I_, r[j] - 1) + Get(I_, r[j] + 1) + 2)])
         + 2 * Get(I_, -1) * (4 * Get(I_, -2) + 3)

\* A slip that counts a bias per neuron, as MLMVN's inference does.
scfnn_i_bias(I_) ==
    LET r == PyRange(1, Len(I_))
    IN 4 * sum([j \in 1..Len(r) |-> Get(I_, r[j]) * (Get(I_, r[j] - 1) + 1)])

\* inference complexity
scfnn_i(I_) ==
    LET r == PyRange(1, Len(I_))
    IN 4 * sum([j \in 1..Len(r) |-> Get(I_, r[j]) * Get(I_, r[j] - 1)])

scfnn_complexity(I_) ==
    IF \E k \in scfnn_reads(I_) : ~InRange(I_, k) THEN IndexError
    ELSE Return(scfnn_t(I_), scfnn_i(I_))

\* ------------------------------------------------------------------ MLMVN
\* Indices of I that mlmvn_complexity reads.
mlmvn_reads(I_) ==
    UNION {{l, l - 1, l + 1} : l \in Elems(PyRange(1, Len(I_) - 1))}
      \cup {-1, -2}
      \cup UNION {{l, l - 1} : l \in Elems(PyRange(1, Len(I_)))}

\* A slip that keeps CVFNN's + 2 in the interior sum.
mlmvn_t_two(I_) ==
    LET r == PyRange(1, Len(I_) - 1)
    IN 4 * sum([j \in 1..Len(r) |->
              Get(I_, r[j]) * (2 * Get(I_, r[j] - 1) + Get(I_, r[j] + 1) + 2)])
         + 4 * Get(I_, -1) * (2 * Get(I_, -2) + 3)

\* Training complexity
mlmvn_t(I_) ==
    LET r == PyRange(1, Len(I_) - 1)
    IN 4 * sum([j \in 1..Len(r) |->
              Get(I_, r[j]) * (2 * Get(I_, r[j] - 1) + Get(I_, r[j] + 1) + 4)])
         + 4 * Get(I_, -1) * (2 * Get(I_, -2) + 3)

\* inference complexity
mlmvn_i(I_) ==
    LET r == PyRange(1, Len(I_))
    IN 4 * sum([j \in 1..Len(r) |-> Get(I_, r[j]) * (Get(I_, r[j] - 1) + 1)])

mlmvn_complexity(I_) ==
    IF \E k \in mlmvn_reads(I_) : ~InRange(I_, k) THEN IndexError
    ELSE Return(mlmvn_t(I_), mlmvn_i(I_))

\* ------------------------------------------------------------------ C-RBF
\* A slip of sign on the output term.
crbf_t_minus(inp_, neurons_, out_) ==
    neurons_ * (4 * inp_ + 6 * out_ + 5) - 4 * out_

\* Training complexity
crbf_t(inp_, neurons_, out_) ==
    neurons_ * (4 * inp_ + 6 * out_ + 5) + 4 * out_

\* inference complexity
crbf_i(inp_, neurons_, out_) == neurons_ * (2 * inp_ + 2 * out_ + 1)

\* The same function with the validation the source does not have.
crbf_complexity_validating(inp_, neurons_, out_) ==
    IF inp_ < 0 \/ neurons_ < 0 \/ out_ < 0
    THEN [status |-> "ValueError"]
    ELSE Return(crbf_t(inp_, neurons_, out_), crbf_i(inp_, neurons_, out_))

crbf_complexity(inp_, neurons_, out_) ==
    Return(crbf_t(inp_, neurons_, out_), crbf_i(inp_, neurons_, out_))

\* ----------------------------------------------------------------- FC-RBF
\* Training complexity
fcrbf_t(inp_, neurons_, out_) ==
    12 * neurons_ * (inp_ + out_ + 1) + 4 * out_

\* A slip of sign between the two widths.
fcrbf_i_minus(inp_, neurons_, out_) == 4 * neurons_ * (inp_ - out_)

\* inference complexity
fcrbf_i(inp_, neurons_, out_) == 4 * neurons_ * (inp_ + out_)

\* A slip that returns the pair in the other order.
fcrbf_complexity_swapped(inp_, neurons_, out_) ==
    Return(fcrbf_i(inp_, neurons_, out_), fcrbf_t(inp_, neurons_, out_))

fcrbf_complexity(inp_, neurons_, out_) ==
    Return(fcrbf_t(inp_, neurons_, out_), fcrbf_i(inp_, neurons_, out_))

\* ----------------------------------------------------------------- PT-RBF
\* A slip that leaves the 0 out.
Prepend0_missing(I_) == I_

\* I = [0] + I
Prepend0(I_) == <<0>> \o I_

\* Indices of the prepended list that ptrbf_complexity reads.
ptrbf_readsI(I_) ==
    LET n == Len(Prepend0(I_))
    IN {l : l \in Elems(PyRange(1, n))}
         \cup {l + 1 : l \in Elems(PyRange(1, n - 1))}

\* Indices of O that ptrbf_complexity reads.
ptrbf_readsO(I_) ==
    LET n == Len(Prepend0(I_))
    IN UNION {{l - 1, l} : l \in Elems(PyRange(1, n))}
         \cup {l : l \in Elems(PyRange(1, n - 1))}
         \cup {-1}

\* Training complexity
ptrbf_t(I_, O_) ==
    LET I2 == Prepend0(I_)
        r1 == PyRange(1, Len(I2))
        r2 == PyRange(1, Len(I2) - 1)
    IN 4 * sum([j \in 1..Len(r1) |->
              Get(I2, r1[j]) * (Get(O_, r1[j] - 1) + 3 * Get(O_, r1[j]) + 3)])
         + 4 * sum([j \in 1..Len(r2) |->
              Get(O_, r2[j]) * (Get(I2, r2[j] + 1) + 1)])
         + 4 * Get(O_, -1)

\* inference complexity
ptrbf_i(I_, O_) ==
    LET I2 == Prepend0(I_)
        r1 == PyRange(1, Len(I2))
    IN 2 * sum([j \in 1..Len(r1) |->
              Get(I2, r1[j]) * (Get(O_, r1[j] - 1) + 2 * Get(O_, r1[j]) + 1)])

\* The same function with the length check the source does not have.
ptrbf_complexity_validating(I_, O_) ==
    IF Len(O_) # Len(I_) + 1 THEN [status |-> "ValueError"]
    ELSE Return(ptrbf_t(I_, O_), ptrbf_i(I_, O_))

ptrbf_complexity(I_, O_) ==
    IF \/ \E k \in ptrbf_readsI(I_) : ~InRange(Prepend0(I_), k)
       \/ \E k \in ptrbf_readsO(I_) : ~InRange(O_, k)
    THEN IndexError
    ELSE Return(ptrbf_t(I_, O_), ptrbf_i(I_, O_))

\* ------------------------------------------------------------------ calls
\* A caller has chosen one function and its arguments; the arguments a
\* function does not take are left at <<>> and 0.
Init ==
    /\ pc = "call"
    /\ ret = None
    /\ \/ /\ fn \in {"cvfnn", "scfnn", "mlmvn"}
          /\ I \in LayerSeqs
          /\ O = <<>>
          /\ inp = 0 /\ neurons = 0 /\ out = 0
       \/ /\ fn \in {"crbf", "fcrbf"}
          /\ I = <<>> /\ O = <<>>
          /\ \E a \in Scalars : inp = a[1] /\ neurons = a[2] /\ out = a[3]
       \/ /\ fn = "ptrbf"
          /\ \E a \in PtArgs : I = a[1] /\ O = a[2]
          /\ inp = 0 /\ neurons = 0 /\ out = 0

Cvfnn ==
    /\ pc = "call" /\ fn = "cvfnn"
    /\ ret' = cvfnn_complexity(I)
    /\ pc' = "done"
    /\ UNCHANGED <<fn, I, O, inp, neurons, out>>

Scfnn ==
    /\ pc = "call" /\ fn = "scfnn"
    /\ ret' = scfnn_complexity(I)
    /\ pc' = "done"
    /\ UNCHANGED <<fn, I, O, inp, neurons, out>>

Mlmvn ==
    /\ pc = "call" /\ fn = "mlmvn"
    /\ ret' = mlmvn_complexity(I)
    /\ pc' = "done"
    /\ UNCHANGED <<fn, I, O, inp, neurons, out>>

Crbf ==
    /\ pc = "call" /\ fn = "crbf"
    /\ ret' = crbf_complexity(inp, neurons, out)
    /\ pc' = "done"
    /\ UNCHANGED <<fn, I, O, inp, neurons, out>>

Fcrbf ==
    /\ pc = "call" /\ fn = "fcrbf"
    /\ ret' = fcrbf_complexity(inp, neurons, out)
    /\ pc' = "done"
    /\ UNCHANGED <<fn, I, O, inp, neurons, out>>

Ptrbf ==
    /\ pc = "call" /\ fn = "ptrbf"
    /\ ret' = ptrbf_complexity(I, O)
    /\ pc' = "done"
    /\ UNCHANGED <<fn, I, O, inp, neurons, out>>

Next == Cvfnn \/ Scfnn \/ Mlmvn \/ Crbf \/ Fcrbf \/ Ptrbf

Spec == Init /\ [][Next]_vars

\* ----------------------------------------------------------------- claims
Done(f) == pc = "done" /\ fn = f

NonNeg(s) == \A j \in 1..Len(s) : s[j] >= 0

Last(s) == s[Len(s)]

\* The arguments meet the documented input contract of the called function.
ValidFnn == fn \in {"cvfnn", "scfnn", "mlmvn"} /\ Len(I) >= 2 /\ NonNeg(I)
ValidRbf == fn \in {"crbf", "fcrbf"} /\ inp >= 0 /\ neurons >= 0 /\ out >= 0
ValidPt == fn = "ptrbf" /\ NonNeg(I) /\ NonNeg(O) /\ Len(O) = Len(I) + 1
Valid == ValidFnn \/ ValidRbf \/ ValidPt

\* C1: each function returns the pair its docstring example documents:
\* cvfnn [6,97,3] -> (8948, 3492), scfnn [6,97,3] -> (8942, 3492),
\* mlmvn [6,97,3] -> (9736, 3892), crbf (6,100,3) -> (4712, 1900),
\* fcrbf (6,100,3) -> (12012, 3600), ptrbf [50,50],[6,50,3] -> (54412, 16400).
C1_DocExamples ==
    /\ (Done("cvfnn") /\ I = DocI) => ret = Return(8948, 3492)
    /\ (Done("scfnn") /\ I = DocI) => ret = Return(8942, 3492)
    /\ (Done("mlmvn") /\ I = DocI) => ret = Return(9736, 3892)
    /\ (Done("crbf") /\ <<inp, neurons, out>> = DocRbf)
          => ret = Return(4712, 1900)
    /\ (Done("fcrbf") /\ <<inp, neurons, out>> = DocRbf)
          => ret = Return(12012, 3600)
    /\ (Done("ptrbf") /\ I = DocPtI /\ O = DocPtO)
          => ret = Return(54412, 16400)

C1_Witness == Done("mlmvn") /\ I = DocI /\ ret.status = "ok"

\* C2: for a length-2 list [a, b] of non-negative widths cvfnn, scfnn and
\* mlmvn do not raise, the interior range is empty, no index read is out of
\* range, and the training cost is the output term alone: 8*b*(a+1),
\* 2*b*(4*a+3) and 4*b*(2*a+3).
C2_LengthTwo ==
    (pc = "done" /\ ValidFnn /\ Len(I) = 2) =>
        /\ ret.status = "ok"
        /\ PyRange(1, Len(I) - 1) = <<>>
        /\ Done("cvfnn") =>
              /\ \A k \in cvfnn_reads(I) : InRange(I, k)
              /\ ret.t = 8 * I[2] * (I[1] + 1)
        /\ Done("scfnn") =>
              /\ \A k \in scfnn_reads(I) : InRange(I, k)
              /\ ret.t = 2 * I[2] * (4 * I[1] + 3)
        /\ Done("mlmvn") =>
              /\ \A k \in mlmvn_reads(I) : InRange(I, k)
              /\ ret.t = 4 * I[2] * (2 * I[1] + 3)

C2_Witness ==
    Done("cvfnn") /\ Len(I) = 2 /\ I[1] > 0 /\ I[2] > 0 /\ ret.status = "ok"

\* C3: on valid non-negative input every function returns a pair of
\* non-negative integers.
C3_NonNegative ==
    (pc = "done" /\ Valid) =>
        ret.status = "ok" /\ ret.t \in Nat /\ ret.i \in Nat

C3_Witness ==
    Done("crbf") /\ inp > 0 /\ neurons > 0 /\ out > 0 /\ ret.status = "ok"

\* The list s with its k-th width raised by d.
Bump(s, k, d) == [s EXCEPT ![k] = @ + d]

\* The pair r costs no less than the pair the call returned.
NoLess(r) == r.status = "ok" /\ r.t >= ret.t /\ r.i >= ret.i

\* C4: on valid non-negative input, raising one layer width or scalar count
\* by a positive amount, the others held fixed, lowers neither the training
\* nor the inference cost; for ptrbf this covers the entries of I and of O.
C4_Monotone ==
    (pc = "done" /\ Valid) =>
        \A d \in 1..MaxBump :
            /\ Done("cvfnn") =>
                  \A k \in 1..Len(I) : NoLess(cvfnn_complexity(Bump(I, k, d)))
            /\ Done("scfnn") =>
                  \A k \in 1..Len(I) : NoLess(scfnn_complexity(Bump(I, k, d)))
            /\ Done("mlmvn") =>
                  \A k \in 1..Len(I) : NoLess(mlmvn_complexity(Bump(I, k, d)))
            /\ Done("crbf") =>
                  /\ NoLess(crbf_complexity(inp + d, neurons, out))
                  /\ NoLess(crbf_complexity(inp, neurons + d, out))
                  /\ NoLess(crbf_complexity(inp, neurons, out + d))
            /\ Done("fcrbf") =>
                  /\ NoLess(fcrbf_complexity(inp + d, neurons, out))
                  /\ NoLess(fcrbf_complexity(inp, neurons + d, out))
                  /\ NoLess(fcrbf_complexity(inp, neurons, out + d))
            /\ Done("ptrbf") =>
                  /\ \A k \in 1..Len(I) :
                        NoLess(ptrbf_complexity(Bump(I, k, d), O))
                  /\ \A k \in 1..Len(O) :
                        NoLess(ptrbf_complexity(I, Bump(O, k, d)))

C4_Witness ==
    /\ Done("ptrbf") /\ ValidPt /\ Len(I) = 2
    /\ ret.status = "ok"
    /\ ptrbf_complexity(I, Bump(O, 2, 1)).t > ret.t

\* Some width or scalar count the called function takes is negative.
HasNegative ==
    \/ fn \in {"cvfnn", "scfnn", "mlmvn"} /\ ~NonNeg(I)
    \/ fn \in {"crbf", "fcrbf"} /\ (inp < 0 \/ neurons < 0 \/ out < 0)
    \/ fn = "ptrbf" /\ (~NonNeg(I) \/ ~NonNeg(O))

\* The lists are long enough for every index the called function reads.
LongEnough ==
    \/ fn \in {"cvfnn", "scfnn", "mlmvn"} /\ Len(I) >= 2
    \/ fn \in {"crbf", "fcrbf"}
    \/ fn = "ptrbf" /\ Len(O) >= Len(I) + 1

\* C5 as claimed: a call with a negative width or scalar count raises an
\* error and never returns a pair.
C5_NegativeRaises ==
    (pc = "done" /\ HasNegative) => ret.status # "ok"

\* C5 as amended: a negative width or scalar count is not detected.  The
\* call returns the pair of its formula whenever the lists are long enough
\* to be indexed, and raises IndexError only when they are not.
C5_NegativeNotDetected ==
    (pc = "done" /\ HasNegative) =>
        /\ ret.status \in {"ok", "IndexError"}
        /\ ret.status = "ok" <=> LongEnough

C5_Witness ==
    Done("crbf") /\ inp < 0 /\ neurons > 0 /\ ret.status = "ok" /\ ret.i < 0

\* C6 as claimed: ptrbf raises an error and returns no pair whenever
\* len(O) # len(I) + 1, for O too short and for O too long.
C6_MisalignedRaises ==
    (Done("ptrbf") /\ Len(O) # Len(I) + 1) => ret.status # "ok"

\* C6 as amended: ptrbf raises an error (IndexError) whenever
\* len(O) < len(I) + 1; when len(O) > len(I) + 1 it raises nothing and
\* returns a pair.
C6_ShortRaisesLongReturns ==
    Done("ptrbf") =>
        /\ Len(O) < Len(I) + 1 => ret.status = "IndexError"
        /\ Len(O) > Len(I) + 1 => ret.status = "ok"

C6_Witness ==
    Done("ptrbf") /\ Len(I) = 1 /\ Len(O) = 3 /\ ret.status = "ok"

\* C7: for I of length n >= 1 and O of length n + 1, non-negative, ptrbf
\* returns training = 4*sum_{l=1..n} N[l]*(O[l-1] + 3*O[l] + 3)
\* + 4*sum_{l=1..n-1} O[l]*(N[l+1] + 1) + 4*O[n] and inference =
\* 2*sum_{l=1..n} N[l]*(O[l-1] + 2*O[l] + 1), N[l] the l-th neuron count of
\* the caller; index 0 of the prepended list is never read and every index
\* read is in range.  (O[j] of the claim is O[j + 1] of the sequence.)
C7_PtrbfFormula ==
    (Done("ptrbf") /\ ValidPt /\ Len(I) >= 1) =>
        LET n == Len(I)
        IN /\ ret.status = "ok"
           /\ ret.t = 4 * sum([l \in 1..n |->
                              I[l] * (O[l] + 3 * O[l + 1] + 3)])
                      + 4 * sum([l \in 1..(n - 1) |->
                              O[l + 1] * (I[l + 1] + 1)])
                      + 4 * O[n + 1]
           /\ ret.i = 2 * sum([l \in 1..n |->
                              I[l] * (O[l] + 2 * O[l + 1] + 1)])
           /\ Len(Prepend0(I)) = n + 1
           /\ ptrbf_readsI(I) \subseteq 1..n
           /\ \A k \in ptrbf_readsO(I) : InRange(O, k)

C7_Witness ==
    /\ Done("ptrbf") /\ ValidPt /\ Len(I) = 2
    /\ I[1] > 0 /\ I[2] > 0 /\ O[2] > 0 /\ O[3] > 0
    /\ ret.status = "ok"

\* sum of I[l]*I[l-1] over l = 1..len(I)-1 (Python indices).
SumProducts(s) == sum([l \in 1..(Len(s) - 1) |-> s[l + 1] * s[l]])

\* C8: for non-negative I of length >= 2, cvfnn and scfnn return the same
\* inference cost, 4 * sum of I[l]*I[l-1] over l = 1..len(I)-1.
C8_SameInference ==
    (pc = "done" /\ ValidFnn /\ fn \in {"cvfnn", "scfnn"}) =>
        /\ ret.status = "ok"
        /\ ret.i = 4 * SumProducts(I)
        /\ cvfnn_complexity(I).i = ret.i
        /\ scfnn_complexity(I).i = ret.i

C8_Witness ==
    Done("scfnn") /\ ValidFnn /\ Len(I) >= 3 /\ ret.status = "ok" /\ ret.i > 0

\* C9: for non-negative I of length >= 2, the cvfnn training cost minus the
\* scfnn training cost is 2*I[-1], whatever the other widths are.
C9_TrainingDifference ==
    (pc = "done" /\ ValidFnn /\ fn \in {"cvfnn", "scfnn"}) =>
        /\ ret.status = "ok"
        /\ Done("cvfnn") => ret.t - scfnn_complexity(I).t = 2 * Last(I)
        /\ Done("scfnn") => cvfnn_complexity(I).t - ret.t = 2 * Last(I)

C9_Witness ==
    /\ Done("cvfnn") /\ ValidFnn /\ Len(I) >= 3 /\ Last(I) > 0
    /\ ret.status = "ok" /\ ret.t > scfnn_complexity(I).t

\* C10: on valid non-negative input the training cost returned is at least
\* the inference cost returned, for each of the six functions.
C10_TrainingAtLeastInference ==
    (pc = "done" /\ Valid) => ret.status = "ok" /\ ret.t >= ret.i

C10_Witness ==
    Done("fcrbf") /\ ValidRbf /\ neurons > 0 /\ inp > 0 /\ ret.status = "ok"

====
